---- MODULE Spec2Model ----
(***************************************************************************)
(* PCI configuration-space routing of propolis.                            *)
(*                                                                         *)
(*   src/src/pci/mod.rs                 PciBus: registry, INTx routing and *)
(*                                      the 0xcf8/0xcfc port handlers      *)
(*   src/lib/propolis/src/hw/pci/mod.rs PioCfgDecoder, PcieCfgDecoder      *)
(*                                                                         *)
(* A u32 is kept as its two 16-bit halves [hi, lo], because the model      *)
(* checker's integers stop at 2^31 - 1 and the enable bit is bit 31.       *)
(* A buffer is a sequence of bytes, first byte first.                      *)
(***************************************************************************)
EXTENDS Integers, Sequences, FiniteSets, TLC

VARIABLES
    target,         \* which object this behaviour drives: the two crates never run together
    pio_cfg_addr,   \* PciBusState.pio_cfg_addr
    devices,        \* PciBusState.devices : Seq of [bdf, dev]
    poisoned,       \* PciBus.state mutex poisoned by a panic under the lock
    attached,       \* per endpoint: the attach callbacks it has received
    addr,           \* PioCfgDecoder.addr
    bus_mask,       \* PcieCfgDecoder.bus_mask
    last,           \* the operation that ran last, with its inputs and outputs
    wrBus,          \* history: buffer of the last 4-byte/offset-0 write to 0xcf8 (PciBus)
    wrLib,          \* history: buffer of the last 4-byte/offset-0 service_addr write
    completed,      \* history: the [bdf, dev] pairs of the attaches that returned
    armed,          \* history: a 4-byte/offset-0 address write with bit 31 set has run
    thr,            \* per thread: the operation it is in and how far it got
    lock            \* holder of PciBus.state (PciBus) or of PioCfgDecoder.addr, or "free"

vars == <<target, pio_cfg_addr, devices, poisoned, attached, addr, bus_mask, last,
          wrBus, wrLib, completed, armed, thr, lock>>

(***************************************************************************)
(* Bounds and input sets                                                   *)
(***************************************************************************)
MaxDevices == 2
MaxRouteDevices == 1

Endpoints == {"E1", "E2"}
Threads == {"t1", "t2"}

\* Locations offered to attach in the port-I/O specification.
BusBdfs ==
    { [bus |-> 0, dev |-> 0,  func |-> 0],
      [bus |-> 0, dev |-> 1,  func |-> 0],
      [bus |-> 1, dev |-> 31, func |-> 2],
      [bus |-> 0, dev |-> 0,  func |-> 3] }

\* Locations offered to attach in the routing specification.
RouteBdfs ==
    { [bus |-> b, dev |-> d, func |-> f] :
          b \in {0, 255}, d \in 0..31, f \in 0..7 }

\* 4-byte little-endian images of the addresses a guest writes to 0xcf8:
\*   0x00000000, 0x80000000, 0x80000800, 0xFF01FAFF, 0x7F01FAFF
AddrBytes ==
    { <<0, 0, 0, 0>>, <<0, 0, 0, 128>>, <<0, 8, 0, 128>>,
      <<255, 250, 1, 255>>, <<255, 250, 1, 127>> }

Lens == {1, 2, 4}
Offsets == 0..3
PreFill == {165}
EpBytes == {66}
WrBytes == {17}

ReadBufs(len) == { [i \in 1..len |-> p] : p \in PreFill }
DataBufs(len) == { [i \in 1..len |-> b] : b \in WrBytes }
WriteBufs(len) == IF len = 4 THEN AddrBytes ELSE DataBufs(len)
EpData(len) == { [i \in 1..len |-> b] : b \in EpBytes }

(***************************************************************************)
(* Machine arithmetic                                                      *)
(***************************************************************************)
RECURSIVE BitAnd(_, _)
BitAnd(a, b) ==
    IF a = 0 \/ b = 0 THEN 0
    ELSE (a % 2) * (b % 2) + 2 * BitAnd(a \div 2, b \div 2)

\* (w >> n) as u8, for 0 <= n <= 16
ShrU8(w, n) == ((w.hi * (2 ^ (16 - n))) + (w.lo \div (2 ^ n))) % 256

\* w & 0x80000000 == 0
EnableClear(w) == BitAnd(w.hi, 32768) = 0

U32Zero == [hi |-> 0, lo |-> 0]

\* byteorder::LE::read_u32 / WriteOp::read_u32
LE_read_u32(buf) ==
    [lo |-> buf[1] + 256 * buf[2], hi |-> buf[3] + 256 * buf[4]]

\* byteorder::LE::write_u32 / ReadOp::write_u32
LE_write_u32(v) ==
    <<v.lo % 256, v.lo \div 256, v.hi % 256, v.hi \div 256>>

(***************************************************************************)
(* Observation of one operation                                            *)
(***************************************************************************)
NoBdf == [bus |-> 0, dev |-> 0, func |-> 0]

\* op, dir, port, offset, pre: the operation and its inputs (pre is the buffer
\* handed in); latch, devs, att: the latch, the registry and the endpoints' attach
\* logs before it ran; buf, calls, res: the buffer afterwards, the calls it made
\* and how it ended; hit, data: what the callee answered.
Obs(op, dir, port, offset, pre, buf, latch, bdf, ep, hit, data, calls, res) ==
    [op |-> op, dir |-> dir, port |-> port, offset |-> offset,
     pre |-> pre, buf |-> buf, latch |-> latch, bdf |-> bdf, ep |-> ep,
     hit |-> hit, data |-> data, calls |-> calls, res |-> res,
     devs |-> devices, att |-> attached]

NoObs == Obs("init", "-", 0, 0, <<>>, <<>>, U32Zero, NoBdf, "-", FALSE, <<>>, <<>>, "ok")

\* A thread: pc is "idle", "lock" (in an operation, before it takes the mutex),
\* "handler" (PciBus: inside the endpoint's callback), "dispatch" (PioCfgDecoder:
\* latch copied, at the dispatch callback) or "done" (returned; the results
\* stay until its next operation).  op, port, dir, buf, bdf, ep: the operation
\* and its arguments, buf the buffer as it stands.  copy: the latch value the
\* operation decoded.  devs: the registry it looked up.  calls, res: the calls
\* it made and how it ended.  History: began, the attaches that had returned
\* (PciBus) or the last address write that had completed (PioCfgDecoder) when
\* it began; since, the address writes completed between its begin and its
\* copy of the latch; now, the latch when it dispatched.
Thread(pc, op, port, dir, buf, bdf, ep, copy, now, began, since, devs, calls, res) ==
    [pc |-> pc, op |-> op, port |-> port, dir |-> dir, buf |-> buf, bdf |-> bdf,
     ep |-> ep, copy |-> copy, now |-> now, began |-> began, since |-> since,
     devs |-> devs, calls |-> calls, res |-> res]

Idle == Thread("idle", "-", 0, "-", <<>>, NoBdf, "-", U32Zero, U32Zero, {}, {}, <<>>, <<>>, "ok")

\* An operation a thread is about to run.
Op(op, port, dir, buf, bdf, ep) ==
    [op |-> op, port |-> port, dir |-> dir, buf |-> buf, bdf |-> bdf, ep |-> ep]

\* One call into an endpoint (PciBus) or into the dispatch callback (decoders).
Call(ep, kind, bdf, off, len, pin, line) ==
    [ep |-> ep, kind |-> kind, bdf |-> bdf, off |-> off, len |-> len,
     pin |-> pin, line |-> line]

(***************************************************************************)
(* src/src/pci/mod.rs                                                      *)
(***************************************************************************)
PORT_PCI_CONFIG_ADDR == 3320
PORT_PCI_CONFIG_DATA == 3324

MASK_FUNC == 7
MASK_DEV == 31
MASK_BUS == 255

\* The bus is registered on these two ports only; the panic!() arm of the port
\* match is kept in pio_out and pio_in but no guest access reaches it.
Ports == {PORT_PCI_CONFIG_ADDR, PORT_PCI_CONFIG_DATA}

\* PciBDF::new: the two asserts
PciBDF_new(bus, dev, func) ==
    [ok |-> dev <= MASK_DEV /\ func <= MASK_FUNC,
     bdf |-> [bus |-> bus, dev |-> dev, func |-> func]]

read_inval_zero(data) == [i \in 1..Len(data) |-> 0]
read_inval(data) == [i \in 1..Len(data) |-> 255]

\* cfg_addr_parse of src/src/pci/mod.rs
PciBus_cfg_addr_parse(a) ==
    IF EnableClear(a)
    THEN [some |-> FALSE, ok |-> TRUE, bdf |-> NoBdf, off |-> 0]
    ELSE LET offset == BitAnd(a.lo, 255)
             func   == BitAnd(ShrU8(a, 8), MASK_FUNC)
             device == BitAnd(ShrU8(a, 11), MASK_DEV)
             bus    == BitAnd(ShrU8(a, 16), MASK_BUS)
             b      == PciBDF_new(bus, device, func)
         IN  [some |-> TRUE, ok |-> b.ok, bdf |-> b.bdf, off |-> offset % 256]

\* self.devices.iter().find(|(sbdf, _)| sbdf == bdf): index of the first match, 0 if none
FindDev_first(devs, bdf) ==
    IF devs # <<>> /\ devs[1].bdf = bdf THEN 1 ELSE 0
FindDev(devs, bdf) ==
    LET S == { i \in 1..Len(devs) : devs[i].bdf = bdf }
    IN  IF S = {} THEN 0 ELSE CHOOSE i \in S : \A j \in S : i <= j

\* PciBusState::cfg_read; data is what the endpoint's cfg_read leaves in the buffer
PciBusState_cfg_read(devs, bdf, ro, data) ==
    LET i == FindDev(devs, bdf)
    IN  IF i # 0
        THEN [buf |-> data,
              calls |-> <<Call(devs[i].dev, "cfg_read", bdf, ro.offset, Len(ro.buf), 0, 0)>>]
        ELSE [buf |-> read_inval(ro.buf), calls |-> <<>>]

\* PciBusState::cfg_write
PciBusState_cfg_write(devs, bdf, wo) ==
    LET i == FindDev(devs, bdf)
    IN  IF i # 0
        THEN [calls |-> <<Call(devs[i].dev, "cfg_write", bdf, wo.offset, Len(wo.buf), 0, 0)>>]
        ELSE [calls |-> <<>>]

\* PciBusState::register: ok = FALSE is the failed assert
register_nocheck(devs, bdf, dev) ==
    [ok |-> TRUE, devices |-> Append(devs, [bdf |-> bdf, dev |-> dev])]
register_replace(devs, bdf, dev) ==
    IF \E i \in 1..Len(devs) : devs[i].bdf = bdf
    THEN [ok |-> TRUE,
          devices |-> [i \in 1..Len(devs) |->
                          IF devs[i].bdf = bdf THEN [bdf |-> bdf, dev |-> dev] ELSE devs[i]]]
    ELSE [ok |-> TRUE, devices |-> Append(devs, [bdf |-> bdf, dev |-> dev])]
register(devs, bdf, dev) ==
    IF \E i \in 1..Len(devs) : devs[i].bdf = bdf
    THEN [ok |-> FALSE, devices |-> devs]
    ELSE [ok |-> TRUE, devices |-> Append(devs, [bdf |-> bdf, dev |-> dev])]

\* PciBus::route_lintr: ok = FALSE is the panic!() arm of the match
route_lintr(bdf) ==
    LET m == ((bdf.func + 1) % 256) % 4
    IN  IF m \in {1, 2, 3, 4}
        THEN [ok |-> TRUE, pin |-> m,
              line |-> (16 + (((4 + bdf.dev + m) % 256) % 8)) % 256]
        ELSE [ok |-> FALSE, pin |-> 0, line |-> 0]

\* PciBus::pio_out, after the lock is taken
pio_out(cfg_addr, devs, port, wo) ==
    IF port = PORT_PCI_CONFIG_ADDR
    THEN [addr |-> IF Len(wo.buf) = 4 /\ wo.offset = 0
                   THEN LE_read_u32(wo.buf) ELSE cfg_addr,
          calls |-> <<>>, res |-> "ok"]
    ELSE IF port = PORT_PCI_CONFIG_DATA
    THEN LET p == PciBus_cfg_addr_parse(cfg_addr)
         IN  IF ~p.ok
             THEN [addr |-> cfg_addr, calls |-> <<>>, res |-> "panic_bdf"]
             ELSE IF p.some
             THEN [addr |-> cfg_addr,
                   calls |-> PciBusState_cfg_write(devs, p.bdf,
                                [offset |-> wo.offset + p.off, buf |-> wo.buf]).calls,
                   res |-> "ok"]
             ELSE [addr |-> cfg_addr, calls |-> <<>>, res |-> "ok"]
    ELSE [addr |-> cfg_addr, calls |-> <<>>, res |-> "panic_port"]

\* PciBus::pio_in, after the lock is taken
pio_in(cfg_addr, devs, port, ro, data) ==
    IF port = PORT_PCI_CONFIG_ADDR
    THEN IF Len(ro.buf) = 4 /\ ro.offset = 0
         THEN [buf |-> LE_write_u32(cfg_addr), calls |-> <<>>, res |-> "ok"]
         ELSE [buf |-> read_inval(ro.buf), calls |-> <<>>, res |-> "ok"]
    ELSE IF port = PORT_PCI_CONFIG_DATA
    THEN LET p == PciBus_cfg_addr_parse(cfg_addr)
         IN  IF ~p.ok
             THEN [buf |-> ro.buf, calls |-> <<>>, res |-> "panic_bdf"]
             ELSE IF p.some
             THEN LET r == PciBusState_cfg_read(devs, p.bdf,
                              [offset |-> ro.offset + p.off, buf |-> ro.buf], data)
                  IN  [buf |-> r.buf, calls |-> r.calls, res |-> "ok"]
             ELSE [buf |-> read_inval(ro.buf), calls |-> <<>>, res |-> "ok"]
    ELSE [buf |-> ro.buf, calls |-> <<>>, res |-> "panic_port"]

\* self.state.lock().unwrap() on a poisoned mutex
LockPanics(op, dir) ==
    /\ target = "PciBus"
    /\ poisoned
    /\ last' = Obs(op, dir, 0, 0, <<>>, <<>>, pio_cfg_addr, NoBdf, "-",
                   FALSE, <<>>, <<>>, "panic_poisoned")
    /\ UNCHANGED <<target, thr, lock, armed, pio_cfg_addr, devices, poisoned, attached, addr, bus_mask,
                   wrBus, wrLib, completed>>

\* PciBus::attach(bdf, dev), with bdf drawn from bdfs, dev from eps, on a bus
\* that holds fewer than max devices.  A panic after the lock is taken unwinds
\* through the guard and poisons the mutex.
attach(bdfs, eps, max) ==
    \/ LockPanics("attach", "-")
    \/ /\ target = "PciBus"
       /\ ~poisoned
       /\ \E bdf \in bdfs, dev \in eps :
           /\ Len(devices) < max \/ FindDev(devices, bdf) # 0
           /\ \E r \in {register(devices, bdf, dev)}, l \in {route_lintr(bdf)} :
                IF ~r.ok
                THEN /\ poisoned' = TRUE
                     /\ last' = Obs("attach", "-", 0, 0, <<>>, <<>>, pio_cfg_addr,
                                    bdf, dev, FALSE, <<>>, <<>>, "panic_dup")
                     /\ UNCHANGED <<devices, attached, completed>>
                ELSE IF ~l.ok
                THEN /\ devices' = r.devices
                     /\ poisoned' = TRUE
                     /\ last' = Obs("attach", "-", 0, 0, <<>>, <<>>, pio_cfg_addr,
                                    bdf, dev, FALSE, <<>>, <<>>, "panic_route")
                     /\ UNCHANGED <<attached, completed>>
                ELSE /\ devices' = r.devices
                     /\ attached' = [attached EXCEPT ![dev] =
                                        Append(@, [pin |-> l.pin, line |-> l.line])]
                     /\ completed' = completed \cup {[bdf |-> bdf, dev |-> dev]}
                     /\ last' = Obs("attach", "-", 0, 0, <<>>, <<>>, pio_cfg_addr,
                                    bdf, dev, FALSE, <<>>,
                                    <<Call(dev, "attach", bdf, 0, 0, l.pin, l.line)>>,
                                    "ok")
                     /\ UNCHANGED poisoned
       /\ UNCHANGED <<target, thr, lock, armed, pio_cfg_addr, addr, bus_mask, wrBus, wrLib>>

Attach == attach(BusBdfs, Endpoints, MaxDevices)

\* PciBus::pio_out(port, wo)
PioOut ==
    \/ LockPanics("pio_out", "Write")
    \/ /\ target = "PciBus"
       /\ ~poisoned
       /\ \E port \in Ports, offset \in Offsets, len \in Lens :
         \E wbuf \in IF port = PORT_PCI_CONFIG_ADDR THEN WriteBufs(len) ELSE DataBufs(len) :
           /\ \E r \in {pio_out(pio_cfg_addr, devices, port, [offset |-> offset, buf |-> wbuf])} :
                  /\ pio_cfg_addr' = r.addr
                  /\ poisoned' = (r.res # "ok")
                  /\ last' = Obs("pio_out", "Write", port, offset, wbuf, wbuf, pio_cfg_addr,
                                 NoBdf, "-", r.calls # <<>>, <<>>, r.calls, r.res)
           /\ wrBus' = IF port = PORT_PCI_CONFIG_ADDR /\ len = 4 /\ offset = 0
                       THEN wbuf ELSE wrBus
           /\ armed' = (armed \/ (port = PORT_PCI_CONFIG_ADDR /\ len = 4 /\ offset = 0
                                    /\ wbuf[4] >= 128))
           /\ UNCHANGED <<target, thr, lock, devices, attached, addr, bus_mask, wrLib, completed>>

\* PciBus::pio_in(port, ro)
PioIn ==
    \/ LockPanics("pio_in", "Read")
    \/ /\ target = "PciBus"
       /\ ~poisoned
       /\ \E port \in Ports, offset \in Offsets, len \in Lens :
         \E rbuf \in ReadBufs(len), data \in EpData(len) :
           /\ \E r \in {pio_in(pio_cfg_addr, devices, port, [offset |-> offset, buf |-> rbuf], data)} :
                  /\ poisoned' = (r.res # "ok")
                  /\ last' = Obs("pio_in", "Read", port, offset, rbuf, r.buf, pio_cfg_addr,
                                 NoBdf, "-", r.calls # <<>>,
                                 IF r.calls # <<>> THEN data ELSE <<>>, r.calls, r.res)
           /\ UNCHANGED <<target, thr, lock, armed, pio_cfg_addr, devices, attached, addr, bus_mask,
                          wrBus, wrLib, completed>>


(***************************************************************************)
(* src/lib/propolis/src/hw/pci/mod.rs                                      *)
(***************************************************************************)
U8_MAX == 255
MASK_ECAM_CFG_OFFSET == 4095
PCIE_MIN_BUSES_PER_ECAM_REGION == 1
PCIE_MAX_BUSES_PER_ECAM_REGION == 256

BusNum_new(n) == [some |-> TRUE, n |-> n]
DevNum_new_lt(n) == [some |-> n < MASK_DEV, n |-> n]
DevNum_new(n) == [some |-> n <= MASK_DEV, n |-> n]
FuncNum_new(n) == [some |-> n <= MASK_FUNC, n |-> n]

BusLocation_new(dev, func) ==
    LET dnum == DevNum_new(dev)
        fnum == FuncNum_new(func)
    IN  [some |-> dnum.some /\ fnum.some, dev |-> dnum.n, func |-> fnum.n]

Bdf_new(bus, dev, func) ==
    LET bnum == BusNum_new(bus)
        loc  == BusLocation_new(dev, func)
    IN  [some |-> bnum.some /\ loc.some,
         bdf |-> [bus |-> bnum.n, dev |-> loc.dev, func |-> loc.func]]

\* Strings are sequences of one-character strings.
DigitChars == <<"0", "1", "2", "3", "4", "5", "6", "7", "8", "9">>
DigitVal(c) == CHOOSE i \in 0..9 : DigitChars[i + 1] = c
IsDigit(c) == \E i \in 1..10 : DigitChars[i] = c

RECURSIVE DecVal(_)
DecVal(ds) ==
    IF ds = <<>> THEN 0
    ELSE 10 * DecVal(SubSeq(ds, 1, Len(ds) - 1)) + DigitVal(ds[Len(ds)])

\* usize::from_str(f): an optional '+', then one or more decimal digits.  The
\* fields drawn have at most three digits, so no usize overflows.
usize_from_str(f) ==
    LET ds == IF f # <<>> /\ f[1] = "+" THEN Tail(f) ELSE f
    IN  IF ds = <<>> \/ \E i \in 1..Len(ds) : ~IsDigit(ds[i])
        THEN [ok |-> FALSE, n |-> 0]
        ELSE [ok |-> TRUE, n |-> DecVal(ds)]

\* s.split('.')
RECURSIVE split(_)
split(s) ==
    IF \A i \in 1..Len(s) : s[i] # "."
    THEN <<s>>
    ELSE LET i == CHOOSE k \in 1..Len(s) :
                      s[k] = "." /\ \A j \in 1..(k - 1) : s[j] # "."
         IN  <<SubSeq(s, 1, i - 1)>> \o split(SubSeq(s, i + 1, Len(s)))

\* impl FromStr for Bdf: ok = FALSE is the Err(InvalidInput) result
Bdf_from_str(s) ==
    LET fs   == split(s)
        nums == [i \in 1..Len(fs) |-> usize_from_str(fs[i])]
    IN  IF \E i \in 1..Len(fs) : ~nums[i].ok \/ nums[i].n > U8_MAX
        THEN [ok |-> FALSE, bdf |-> NoBdf]
        ELSE IF Len(fs) # 3
        THEN [ok |-> FALSE, bdf |-> NoBdf]
        ELSE LET b == Bdf_new(nums[1].n, nums[2].n, nums[3].n)
             IN  [ok |-> b.some, bdf |-> IF b.some THEN b.bdf ELSE NoBdf]

\* u8 as Display
RECURSIVE u8_fmt(_)
u8_fmt(n) ==
    IF n < 10 THEN <<DigitChars[n + 1]>>
    ELSE u8_fmt(n \div 10) \o <<DigitChars[(n % 10) + 1]>>

\* impl Display for Bdf: "{}.{}.{}" of bus, dev, func
Bdf_fmt_swapped(b) ==
    u8_fmt(b.bus) \o <<".">> \o u8_fmt(b.func) \o <<".">> \o u8_fmt(b.dev)
Bdf_fmt(b) ==
    u8_fmt(b.bus) \o <<".">> \o u8_fmt(b.dev) \o <<".">> \o u8_fmt(b.func)

\* A latch that starts with the enable bit set.
PioCfgDecoder_new_enabled == [hi |-> 32768, lo |-> 0]

\* PioCfgDecoder::new: the latch starts at 0
PioCfgDecoder_new == U32Zero

\* ReadOp::fill
fill(buf, v) == [i \in 1..Len(buf) |-> v]

\* cfg_addr_parse: ok = FALSE is the unwrap of an absent Bdf
cfg_addr_parse_noshift(a) ==
    IF EnableClear(a)
    THEN [some |-> FALSE, ok |-> TRUE, bdf |-> NoBdf, off |-> 0]
    ELSE LET b == Bdf_new(BitAnd(ShrU8(a, 16), MASK_BUS),
                          BitAnd(ShrU8(a, 8), MASK_DEV),
                          BitAnd(ShrU8(a, 8), MASK_FUNC))
         IN  [some |-> TRUE, ok |-> b.some, bdf |-> b.bdf, off |-> BitAnd(a.lo, 255) % 256]
cfg_addr_parse(a) ==
    IF EnableClear(a)
    THEN [some |-> FALSE, ok |-> TRUE, bdf |-> NoBdf, off |-> 0]
    ELSE LET b == Bdf_new(BitAnd(ShrU8(a, 16), MASK_BUS),
                          BitAnd(ShrU8(a, 11), MASK_DEV),
                          BitAnd(ShrU8(a, 8), MASK_FUNC))
         IN  [some |-> TRUE, ok |-> b.some, bdf |-> b.bdf, off |-> BitAnd(a.lo, 255) % 256]

\* PioCfgDecoder::service_addr
service_addr_torn(a, rwop) ==
    IF Len(rwop.buf) # 4 \/ rwop.offset # 0
    THEN [addr |-> a, buf |-> rwop.buf]
    ELSE IF rwop.dir = "Read"
    THEN [addr |-> a, buf |-> LE_write_u32(a)]
    ELSE [addr |-> [hi |-> a.hi, lo |-> LE_read_u32(rwop.buf).lo], buf |-> rwop.buf]
service_addr_masked(a, rwop) ==
    IF Len(rwop.buf) # 4 \/ rwop.offset # 0
    THEN [addr |-> a, buf |-> rwop.buf]
    ELSE IF rwop.dir = "Read"
    THEN [addr |-> a, buf |-> LE_write_u32(a)]
    ELSE [addr |-> [hi |-> BitAnd(LE_read_u32(rwop.buf).hi, 33023),
                    lo |-> LE_read_u32(rwop.buf).lo],
          buf |-> rwop.buf]
service_addr(a, rwop) ==
    IF Len(rwop.buf) # 4 \/ rwop.offset # 0
    THEN [addr |-> a, buf |-> rwop.buf]
    ELSE IF rwop.dir = "Read"
    THEN [addr |-> a, buf |-> LE_write_u32(a)]
    ELSE [addr |-> LE_read_u32(rwop.buf), buf |-> rwop.buf]

\* PioCfgDecoder::service_data: the address it parses is its own copy of the
\* latch (let addr = *locked_addr), whatever the latch holds by then
service_data_addr_reread(copied, latch) == latch
service_data_addr(copied, latch) == copied

\* PioCfgDecoder::service_data; cb is the behaviour of the caller's callback:
\* cb.hit its return value, cb.data what it leaves in a read buffer
service_data(a, rwop, cb) ==
    LET p == cfg_addr_parse(a)
    IN  IF ~p.ok
        THEN [buf |-> rwop.buf, calls |-> <<>>, res |-> "panic_bdf"]
        ELSE IF p.some
        THEN LET off == p.off + rwop.offset
                 c   == <<Call("cb", rwop.dir, p.bdf, off, Len(rwop.buf), 0, 0)>>
             IN  IF rwop.dir = "Read"
                 THEN [buf |-> IF cb.hit THEN cb.data ELSE fill(cb.data, 255),
                       calls |-> c, res |-> "ok"]
                 ELSE [buf |-> rwop.buf, calls |-> c, res |-> "ok"]
        ELSE [buf |-> rwop.buf, calls |-> <<>>, res |-> "ok"]

\* usize::is_power_of_two for a u16
is_power_of_two(n) == \E k \in 0..15 : n = 2 ^ k

\* PcieCfgDecoder::new: ok = FALSE is a failed assert
PcieCfgDecoder_new_nopow2(bus_count) ==
    [ok |-> /\ bus_count >= PCIE_MIN_BUSES_PER_ECAM_REGION
            /\ bus_count <= PCIE_MAX_BUSES_PER_ECAM_REGION,
     bus_mask |-> (bus_count - 1) % 256]
PcieCfgDecoder_new(bus_count) ==
    [ok |-> /\ is_power_of_two(bus_count)
            /\ bus_count >= PCIE_MIN_BUSES_PER_ECAM_REGION
            /\ bus_count <= PCIE_MAX_BUSES_PER_ECAM_REGION,
     bus_mask |-> (bus_count - 1) % 256]

\* PcieCfgDecoder::decode_enhanced_cfg_offset
decode_enhanced_cfg_offset(mask, region_offset) ==
    LET bus  == BitAnd((region_offset \div (2 ^ 20)) % 256, mask)
        dev  == BitAnd((region_offset \div (2 ^ 15)) % 256, MASK_DEV)
        func == BitAnd((region_offset \div (2 ^ 12)) % 256, MASK_FUNC)
        cfg_offset == BitAnd(region_offset, MASK_ECAM_CFG_OFFSET)
        b    == Bdf_new(bus, dev, func)
    IN  [ok |-> b.some, bdf |-> b.bdf, cfg_off |-> cfg_offset]

\* PcieCfgDecoder::service: the decode of the last byte of the access
end_bdf_middle(mask, rwop) ==
    decode_enhanced_cfg_offset(mask, rwop.offset + ((Len(rwop.buf) - 1) \div 2))
end_bdf_start(mask, rwop) ==
    decode_enhanced_cfg_offset(mask, rwop.offset)
end_bdf_excl(mask, rwop) ==
    decode_enhanced_cfg_offset(mask, rwop.offset + Len(rwop.buf))
end_bdf(mask, rwop) ==
    decode_enhanced_cfg_offset(mask, rwop.offset + Len(rwop.buf) - 1)

\* PcieCfgDecoder::service; cb as in service_data
service(mask, rwop, cb) ==
    IF Len(rwop.buf) = 0
    THEN [buf |-> rwop.buf, calls |-> <<>>, res |-> "panic_len0"]
    ELSE LET s == decode_enhanced_cfg_offset(mask, rwop.offset)
             e == end_bdf(mask, rwop)
         IN  IF ~s.ok \/ ~e.ok
             THEN [buf |-> rwop.buf, calls |-> <<>>, res |-> "panic_bdf"]
             ELSE IF s.bdf # e.bdf
             THEN [buf |-> IF rwop.dir = "Read" THEN fill(rwop.buf, 255) ELSE rwop.buf,
                   calls |-> <<>>, res |-> "ok"]
             ELSE LET c == <<Call("cb", rwop.dir, s.bdf, s.cfg_off, Len(rwop.buf), 0, 0)>>
                  IN  IF rwop.dir = "Read"
                      THEN [buf |-> IF cb.hit THEN cb.data ELSE fill(cb.data, 255),
                            calls |-> c, res |-> "ok"]
                      ELSE [buf |-> rwop.buf, calls |-> c, res |-> "ok"]

\* The accesses a guest presents and the behaviours of the caller's callback.
RWOps(offs, lens) ==
    { [dir |-> "Read", offset |-> o, buf |-> b] :
          o \in offs, b \in UNION { ReadBufs(n) : n \in lens } }
    \cup
    { [dir |-> "Write", offset |-> o, buf |-> b] :
          o \in offs, b \in UNION { WriteBufs(n) : n \in lens } }

Callbacks(rwop) ==
    IF rwop.dir = "Read"
    THEN { [hit |-> h, data |-> d] :
               h \in BOOLEAN, d \in {rwop.buf} \cup EpData(Len(rwop.buf)) }
    ELSE { [hit |-> h, data |-> rwop.buf] : h \in BOOLEAN }

\* PioCfgDecoder::service_addr(rwop)
ServiceAddr ==
    /\ target = "PioCfgDecoder"
    /\ \E rwop \in RWOps(Offsets, Lens) :
        /\ \E r \in {service_addr(addr, rwop)} :
              /\ addr' = r.addr
              /\ last' = Obs("service_addr", rwop.dir, PORT_PCI_CONFIG_ADDR, rwop.offset,
                             rwop.buf, r.buf, addr, NoBdf, "-", FALSE, <<>>, <<>>, "ok")
        /\ wrLib' = IF rwop.dir = "Write" /\ Len(rwop.buf) = 4 /\ rwop.offset = 0
                    THEN rwop.buf ELSE wrLib
        /\ armed' = (armed \/ (rwop.dir = "Write" /\ Len(rwop.buf) = 4 /\ rwop.offset = 0
                                 /\ rwop.buf[4] >= 128))
        /\ UNCHANGED <<target, thr, lock, pio_cfg_addr, devices, poisoned, attached, bus_mask,
                       wrBus, completed>>

\* PioCfgDecoder::service_data(rwop, cb)
ServiceData ==
    /\ target = "PioCfgDecoder"
    /\ \E rwop \in RWOps(Offsets, Lens) :
      \E cb \in Callbacks(rwop) :
        /\ \E r \in {service_data(addr, rwop, cb)} :
              last' = Obs("service_data", rwop.dir, PORT_PCI_CONFIG_DATA, rwop.offset,
                          rwop.buf, r.buf, addr, NoBdf, "-", cb.hit, cb.data, r.calls, r.res)
        /\ UNCHANGED <<target, thr, lock, armed, pio_cfg_addr, devices, poisoned, attached, addr, bus_mask,
                       wrBus, wrLib, completed>>

\* Region offsets: 0x0, 0xFFE, 0xFFF, 0x1000, 0x7FFE, 0xFFFFE, 0x123004,
\* 0x1FFFFE and 0xFFFFFFE (the last bytes of a 256-bus window)
EcamOffsets ==
    {0, 4094, 4095, 4096, 32766, 1048574, 1191940, 2097150, 268435454}
EcamLens == {0, 1, 2, 4}
BusCounts == {2, 256}

\* PcieCfgDecoder::service(rwop, cb)
Service ==
    /\ target = "PcieCfgDecoder"
    /\ \E rwop \in RWOps(EcamOffsets, EcamLens) :
      \E cb \in Callbacks(rwop) :
        /\ \E r \in {service(bus_mask, rwop, cb)} :
              last' = Obs("service", rwop.dir, 0, rwop.offset,
                          rwop.buf, r.buf, U32Zero, NoBdf, "-", cb.hit, cb.data, r.calls, r.res)
        /\ UNCHANGED <<target, thr, lock, armed, pio_cfg_addr, devices, poisoned, attached, addr, bus_mask,
                       wrBus, wrLib, completed>>

(***************************************************************************)
(* The pure functions of the library, each applied once to an argument     *)
(* that the initial state draws: last holds the argument (res = "arg") and *)
(* then the result.                                                        *)
(***************************************************************************)
MaxFields == 4
MaxEcamLen == 4097

Arg(op, pre, latch, offset, port, bdf) ==
    Obs(op, "-", port, offset, pre, <<>>, latch, bdf, "-", FALSE, <<>>, <<>>, "arg")

\* u8 triples: every dev, the func values around the 3-bit limit
U8Triples == {0, 1, 255} \X (0..255) \X ((0..15) \cup {255})
\* 32-bit addresses: every dev and func field, enable bit set and clear
PioAddrs ==
    { [hi |-> h, lo |-> d * 2048 + f * 256 + r] :
          h \in {0, 32767, 32768, 33023, 65535}, d \in 0..31, f \in 0..7, r \in {0, 255} }
\* region offsets: every dev and func field, bus fields inside and beyond 8 bits
RegionOffsets ==
    { b * 1048576 + d * 32768 + f * 4096 + c :
          b \in {0, 1, 255, 257, 2047}, d \in 0..31, f \in 0..7, c \in {0, 4095} }
BusMasks == {0, 1, 255}
\* u16 bus counts
BusCountArgs == (0..600) \cup {1024, 32768, 65535}
\* fields of a string to parse: 0, 7, 8, 32, 255, 256, empty, -1, a, +1
FieldStrs ==
    { <<"0">>, <<"7">>, <<"8">>, <<"3", "2">>, <<"2", "5", "5">>, <<"2", "5", "6">>,
      <<>>, <<"-", "1">>, <<"a">>, <<"+", "1">> }
FieldLists == UNION { [1..n -> FieldStrs] : n \in 1..MaxFields }
RECURSIVE Join(_)
Join(fs) == IF Len(fs) = 1 THEN fs[1] ELSE fs[1] \o <<".">> \o Join(Tail(fs))

\* ECAM accesses: lengths up to one byte more than a function's 4 KiB, at the
\* start, around the first page boundary, at the end of the first device and
\* at the end of the window of mask + 1 buses
EcamLongLens == {1, 2, 4, MaxEcamLen - 2, MaxEcamLen - 1, MaxEcamLen}
EcamLongOffsets(mask) ==
    {0, 1, 4095, 4096, 4097, 32767,
     (mask + 1) * 1048576 - 4096, (mask + 1) * 1048576 - 2, (mask + 1) * 1048576 - 1}

\* last holds one argument of one of the functions
PureArgs ==
    \/ \E m \in BusMasks, n \in EcamLongLens, d \in {"Read", "Write"} :
       \E o \in EcamLongOffsets(m), b \in ReadBufs(n) :
          last = [Arg("service", b, U32Zero, o, m, NoBdf) EXCEPT !.dir = d]
    \/ \E t \in U8Triples : last = Arg("Bdf_new", t, U32Zero, 0, 0, NoBdf)
    \/ \E a \in PioAddrs : last = Arg("cfg_addr_parse", <<>>, a, 0, 0, NoBdf)
    \/ \E o \in RegionOffsets, m \in BusMasks :
          last = Arg("decode_enhanced_cfg_offset", <<>>, U32Zero, o, m, NoBdf)
    \/ \E c \in BusCountArgs : last = Arg("PcieCfgDecoder_new", <<>>, U32Zero, c, 0, NoBdf)
    \/ \E fl \in FieldLists : last = Arg("from_str", fl, U32Zero, 0, 0, NoBdf)
    \/ \E bus \in 0..255, dev \in 0..31, func \in 0..7 :
          last = Arg("fmt", <<>>, U32Zero, 0, 0, Bdf_new(bus, dev, func).bdf)

PureStep(op) ==
    /\ target = "pure"
    /\ last.op = op /\ last.res = "arg"
    /\ UNCHANGED <<target, thr, lock, armed, pio_cfg_addr, devices, poisoned, attached,
                   addr, bus_mask, wrBus, wrLib, completed>>

\* Bdf::new(bus, dev, func)
BdfNew ==
    /\ PureStep("Bdf_new")
    /\ \E r \in {Bdf_new(last.pre[1], last.pre[2], last.pre[3])} :
          last' = [last EXCEPT !.res = "ok", !.hit = r.some,
                               !.bdf = IF r.some THEN r.bdf ELSE NoBdf]

\* cfg_addr_parse(addr)
CfgAddrParse ==
    /\ PureStep("cfg_addr_parse")
    /\ \E r \in {cfg_addr_parse(last.latch)} :
          last' = [last EXCEPT !.res = IF r.ok THEN "ok" ELSE "panic_bdf",
                               !.hit = r.some, !.bdf = r.bdf, !.offset = r.off]

\* PcieCfgDecoder { bus_mask }.decode_enhanced_cfg_offset(region_offset)
DecodeOffset ==
    /\ PureStep("decode_enhanced_cfg_offset")
    /\ \E r \in {decode_enhanced_cfg_offset(last.port, last.offset)} :
          last' = [last EXCEPT !.res = IF r.ok THEN "ok" ELSE "panic_bdf",
                               !.hit = r.ok, !.bdf = r.bdf, !.data = <<r.cfg_off>>]

\* PcieCfgDecoder::new(bus_count)
PcieNew ==
    /\ PureStep("PcieCfgDecoder_new")
    /\ \E r \in {PcieCfgDecoder_new(last.offset)} :
          last' = [last EXCEPT !.res = IF r.ok THEN "ok" ELSE "panic_assert",
                               !.hit = r.ok, !.port = IF r.ok THEN r.bus_mask ELSE 0]

\* PcieCfgDecoder { bus_mask }.service(rwop, cb), with a callback that hits
EcamService ==
    /\ PureStep("service")
    /\ \E cb \in {[hit |-> TRUE,
                    data |-> IF last.dir = "Read" THEN fill(last.pre, 66) ELSE last.pre]} :
       \E r \in {service(last.port,
                          [dir |-> last.dir, offset |-> last.offset, buf |-> last.pre], cb)} :
          last' = [last EXCEPT !.res = r.res, !.buf = r.buf, !.calls = r.calls,
                               !.hit = cb.hit, !.data = cb.data]

\* Bdf::from_str(s), s the fields of last.pre joined with '.'
FromStr ==
    /\ PureStep("from_str")
    /\ \E s \in {Join(last.pre)} : \E r \in {Bdf_from_str(s)} :
          last' = [last EXCEPT !.res = IF r.ok THEN "ok" ELSE "err",
                               !.buf = s, !.hit = r.ok, !.bdf = r.bdf]

\* Bdf::from_str(&bdf.to_string())
FmtFromStr ==
    /\ PureStep("fmt")
    /\ \E s \in {Bdf_fmt(last.bdf)} : \E r \in {Bdf_from_str(s)} :
          last' = [last EXCEPT !.res = IF r.ok THEN "ok" ELSE "err",
                               !.buf = s, !.hit = r.ok, !.data = <<r.bdf>>]

(***************************************************************************)
(* Threads.  vCPU threads call the port handlers at any time; each handler *)
(* is cut where another thread can run: before the mutex is taken, and,    *)
(* once it is, wherever the code calls out while or after holding it.      *)
(***************************************************************************)
\* Addresses the threads write to the address port: 0x80000800 (0.1.0,
\* register 0) and 0xFF01FAFF (1.31.2, register 0xFC + 3)
ThreadAddrs == { <<0, 8, 0, 128>>, <<255, 250, 1, 255>> }
ThreadAttaches ==
    { [bdf |-> [bus |-> 0, dev |-> 1,  func |-> 0], dev |-> "E1"],
      [bdf |-> [bus |-> 0, dev |-> 1,  func |-> 0], dev |-> "E2"],
      [bdf |-> [bus |-> 1, dev |-> 31, func |-> 2], dev |-> "E2"] }

BusOps ==
    { Op("attach", 0, "-", <<>>, a.bdf, a.dev) : a \in ThreadAttaches }
    \cup { Op("pio_out", PORT_PCI_CONFIG_ADDR, "Write", v, NoBdf, "-") : v \in ThreadAddrs }
    \cup { Op("pio_in", PORT_PCI_CONFIG_ADDR, "Read", b, NoBdf, "-") : b \in ReadBufs(4) }
    \cup { Op("pio_in", PORT_PCI_CONFIG_DATA, "Read", b, NoBdf, "-") : b \in ReadBufs(1) }
    \cup { Op("pio_out", PORT_PCI_CONFIG_DATA, "Write", b, NoBdf, "-") : b \in DataBufs(1) }

LibOps ==
    { Op("service_addr", PORT_PCI_CONFIG_ADDR, "Write", v, NoBdf, "-") : v \in ThreadAddrs }
    \cup { Op("service_addr", PORT_PCI_CONFIG_ADDR, "Read", b, NoBdf, "-") : b \in ReadBufs(4) }
    \cup { Op("service_data", PORT_PCI_CONFIG_DATA, "Read", b, NoBdf, "-") : b \in ReadBufs(1) }

\* The thread's record when it returns.
Done(th, buf, calls, res) ==
    [th EXCEPT !.pc = "done", !.buf = buf, !.calls = calls, !.res = res]

\* A vCPU exit (or the machine setup, for attach) enters a PciBus method.
BusBegin(t) ==
    /\ target = "PciBus"
    /\ thr[t].pc \in {"idle", "done"}
    /\ \E o \in BusOps :
          thr' = [thr EXCEPT ![t] =
                     Thread("lock", o.op, o.port, o.dir, o.buf, o.bdf, o.ep,
                            U32Zero, U32Zero, completed, {}, <<>>, <<>>, "ok")]
    /\ UNCHANGED <<target, pio_cfg_addr, devices, poisoned, attached, addr, bus_mask, last,
                   wrBus, wrLib, completed, armed, lock>>

\* self.state.lock().unwrap() on a poisoned mutex
BusLockPanics(t) ==
    /\ target = "PciBus"
    /\ thr[t].pc = "lock" /\ lock = "free"
    /\ poisoned
    /\ thr' = [thr EXCEPT ![t] = Done(@, @.buf, <<>>, "panic_poisoned")]
    /\ UNCHANGED <<target, pio_cfg_addr, devices, poisoned, attached, addr, bus_mask, last,
                   wrBus, wrLib, completed, armed, lock>>

\* PciBus::attach up to the call of dev.attach: lock, register, route_lintr
AttachLocked(t) ==
    /\ target = "PciBus"
    /\ thr[t].pc = "lock" /\ lock = "free"
    /\ ~poisoned
    /\ thr[t].op = "attach"
    /\ \E r \in {register(devices, thr[t].bdf, thr[t].ep)}, l \in {route_lintr(thr[t].bdf)} :
          IF ~r.ok
          THEN /\ poisoned' = TRUE
               /\ thr' = [thr EXCEPT ![t] = Done(@, <<>>, <<>>, "panic_dup")]
               /\ UNCHANGED <<devices, lock>>
          ELSE IF ~l.ok
          THEN /\ devices' = r.devices
               /\ poisoned' = TRUE
               /\ thr' = [thr EXCEPT ![t] = Done(@, <<>>, <<>>, "panic_route")]
               /\ UNCHANGED lock
          ELSE /\ devices' = r.devices
               /\ lock' = t
               /\ thr' = [thr EXCEPT ![t] =
                             [@ EXCEPT !.pc = "handler",
                                       !.calls = <<Call(thr[t].ep, "attach", thr[t].bdf,
                                                        0, 0, l.pin, l.line)>>]]
               /\ UNCHANGED poisoned
    /\ UNCHANGED <<target, pio_cfg_addr, attached, addr, bus_mask, last,
                   wrBus, wrLib, completed, armed>>

\* dev.attach returns, then PciBus::attach: the guard is dropped
AttachReturn(t) ==
    /\ target = "PciBus"
    /\ thr[t].pc = "handler" /\ lock = t
    /\ thr[t].op = "attach"
    /\ attached' = [attached EXCEPT ![thr[t].ep] =
                       Append(@, [pin |-> thr[t].calls[1].pin, line |-> thr[t].calls[1].line])]
    /\ completed' = completed \cup {[bdf |-> thr[t].bdf, dev |-> thr[t].ep]}
    /\ lock' = "free"
    /\ thr' = [thr EXCEPT ![t] = Done(@, @.buf, @.calls, "ok")]
    /\ UNCHANGED <<target, pio_cfg_addr, devices, poisoned, addr, bus_mask, last,
                   wrBus, wrLib, armed>>

\* PciBus::pio_out and pio_in up to the call into the endpoint, or to the end
\* when no endpoint is called: lock, then the port match
PioLocked(t) ==
    /\ target = "PciBus"
    /\ thr[t].pc = "lock" /\ lock = "free"
    /\ ~poisoned
    /\ thr[t].op \in {"pio_in", "pio_out"}
    /\ \E r \in { IF thr[t].op = "pio_out"
                   THEN [buf |-> thr[t].buf] @@
                        pio_out(pio_cfg_addr, devices, thr[t].port,
                                [offset |-> 0, buf |-> thr[t].buf])
                   ELSE [addr |-> pio_cfg_addr] @@
                        pio_in(pio_cfg_addr, devices, thr[t].port,
                               [offset |-> 0, buf |-> thr[t].buf], [i \in 1..Len(thr[t].buf) |-> 66]) } :
          /\ pio_cfg_addr' = r.addr
          /\ poisoned' = (r.res # "ok")
          /\ lock' = IF r.calls # <<>> THEN t ELSE "free"
          /\ thr' = [thr EXCEPT ![t] =
                        [@ EXCEPT !.pc = IF r.calls # <<>> THEN "handler" ELSE "done",
                                  !.buf = r.buf, !.calls = r.calls, !.res = r.res,
                                  !.copy = pio_cfg_addr, !.devs = devices]]
    /\ wrBus' = IF thr[t].op = "pio_out" /\ thr[t].port = PORT_PCI_CONFIG_ADDR
                THEN thr[t].buf ELSE wrBus
    /\ armed' = (armed \/ (thr[t].op = "pio_out" /\ thr[t].port = PORT_PCI_CONFIG_ADDR
                             /\ thr[t].buf[4] >= 128))
    /\ UNCHANGED <<target, devices, attached, addr, bus_mask, last, wrLib, completed>>

\* the endpoint's cfg_read or cfg_write returns, then the port handler: the
\* guard is dropped
PioReturn(t) ==
    /\ target = "PciBus"
    /\ thr[t].pc = "handler" /\ lock = t
    /\ thr[t].op \in {"pio_in", "pio_out"}
    /\ lock' = "free"
    /\ thr' = [thr EXCEPT ![t] = [@ EXCEPT !.pc = "done"]]
    /\ UNCHANGED <<target, pio_cfg_addr, devices, poisoned, attached, addr, bus_mask, last,
                   wrBus, wrLib, completed, armed>>

\* A vCPU exit enters a PioCfgDecoder method.
LibBegin(t) ==
    /\ target = "PioCfgDecoder"
    /\ thr[t].pc \in {"idle", "done"}
    /\ \E o \in LibOps :
          thr' = [thr EXCEPT ![t] =
                     Thread("lock", o.op, o.port, o.dir, o.buf, o.bdf, o.ep,
                            U32Zero, U32Zero, {wrLib}, {}, <<>>, <<>>, "ok")]
    /\ UNCHANGED <<target, pio_cfg_addr, devices, poisoned, attached, addr, bus_mask, last,
                   wrBus, wrLib, completed, armed, lock>>

\* PioCfgDecoder::service_addr: the whole body runs with the latch locked
LibAddr(t) ==
    /\ target = "PioCfgDecoder"
    /\ thr[t].pc = "lock" /\ lock = "free"
    /\ thr[t].op = "service_addr"
    /\ \E r \in {service_addr(addr, [dir |-> thr[t].dir, offset |-> 0, buf |-> thr[t].buf])} :
          /\ addr' = r.addr
          /\ thr' = [u \in Threads |->
                        IF u = t
                        THEN [Done(thr[t], r.buf, <<>>, "ok") EXCEPT !.copy = addr]
                        ELSE IF thr[t].dir = "Write" /\ thr[u].pc = "lock"
                        THEN [thr[u] EXCEPT !.since = @ \cup {thr[t].buf}]
                        ELSE thr[u]]
    /\ wrLib' = IF thr[t].dir = "Write" THEN thr[t].buf ELSE wrLib
    /\ armed' = (armed \/ (thr[t].dir = "Write" /\ thr[t].buf[4] >= 128))
    /\ UNCHANGED <<target, pio_cfg_addr, devices, poisoned, attached, bus_mask, last,
                   wrBus, completed, lock>>

\* PioCfgDecoder::service_data, first half: lock, copy the latch, drop the guard
LibCopy(t) ==
    /\ target = "PioCfgDecoder"
    /\ thr[t].pc = "lock" /\ lock = "free"
    /\ thr[t].op = "service_data"
    /\ thr' = [thr EXCEPT ![t] = [@ EXCEPT !.pc = "dispatch", !.copy = addr]]
    /\ UNCHANGED <<target, pio_cfg_addr, devices, poisoned, attached, addr, bus_mask, last,
                   wrBus, wrLib, completed, armed, lock>>

\* PioCfgDecoder::service_data, second half: cfg_addr_parse and the callback
LibDispatch(t) ==
    /\ target = "PioCfgDecoder"
    /\ thr[t].pc = "dispatch"
    /\ \E cb \in Callbacks([dir |-> thr[t].dir, offset |-> 0, buf |-> thr[t].buf]) :
        \E r \in {service_data(service_data_addr(thr[t].copy, addr),
                                [dir |-> thr[t].dir, offset |-> 0, buf |-> thr[t].buf], cb)} :
          thr' = [thr EXCEPT ![t] = [Done(@, r.buf, r.calls, r.res) EXCEPT !.now = addr]]
    /\ UNCHANGED <<target, pio_cfg_addr, devices, poisoned, attached, addr, bus_mask, last,
                   wrBus, wrLib, completed, armed, lock>>

(***************************************************************************)
(* Specifications                                                          *)
(***************************************************************************)
\* PciBus::new, PioCfgDecoder::new, PcieCfgDecoder::new
Init ==
    /\ \/ target \in {"PciBus", "PioCfgDecoder"} /\ bus_mask = 255
       \/ /\ target = "PcieCfgDecoder"
          /\ \E c \in BusCounts :
                PcieCfgDecoder_new(c).ok /\ bus_mask = PcieCfgDecoder_new(c).bus_mask
    /\ pio_cfg_addr = U32Zero
    /\ devices = <<>>
    /\ poisoned = FALSE
    /\ attached = [e \in Endpoints |-> <<>>]
    /\ addr = PioCfgDecoder_new
    /\ last = NoObs
    /\ wrBus = <<>>
    /\ wrLib = <<>>
    /\ completed = {}
    /\ armed = FALSE
    /\ thr = [t \in Threads |-> Idle]
    /\ lock = "free"

Next == Attach \/ PioOut \/ PioIn \/ ServiceAddr \/ ServiceData \/ Service

Spec == Init /\ [][Next]_vars

\* Attaches at every device and function number, on a fresh bus.
InitRoute == Init /\ target = "PciBus"

AttachAny == attach(RouteBdfs, {"E1"}, MaxRouteDevices)

NextRoute == AttachAny

SpecRoute == InitRoute /\ [][NextRoute]_vars

\* The pure functions, each argument applied once.
InitPure ==
    /\ target = "pure"
    /\ bus_mask = 255
    /\ pio_cfg_addr = U32Zero
    /\ devices = <<>>
    /\ poisoned = FALSE
    /\ attached = [e \in Endpoints |-> <<>>]
    /\ addr = PioCfgDecoder_new
    /\ PureArgs
    /\ wrBus = <<>>
    /\ wrLib = <<>>
    /\ completed = {}
    /\ armed = FALSE
    /\ thr = [t \in Threads |-> Idle]
    /\ lock = "free"

NextPure ==
    \/ BdfNew \/ CfgAddrParse \/ DecodeOffset \/ PcieNew \/ FromStr \/ FmtFromStr
    \/ EcamService

SpecPure == InitPure /\ [][NextPure]_vars

\* Two threads on one PciBus, or on one PioCfgDecoder.
InitThreads == Init /\ target \in {"PciBus", "PioCfgDecoder"}

NextThreads ==
    \E t \in Threads :
        \/ BusBegin(t) \/ BusLockPanics(t)
        \/ AttachLocked(t) \/ AttachReturn(t)
        \/ PioLocked(t) \/ PioReturn(t)
        \/ LibBegin(t) \/ LibAddr(t) \/ LibCopy(t) \/ LibDispatch(t)

SpecThreads == InitThreads /\ [][NextThreads]_vars

(***************************************************************************)
(* Vocabulary of the properties: the address layout and the ECAM layout as *)
(* the interface documents them, written without the decoders' operators.  *)
(***************************************************************************)
Bit31(w) == w.hi >= 32768
AddrBdf(w) ==
    [bus |-> w.hi % 256, dev |-> (w.lo \div 2048) % 32, func |-> (w.lo \div 256) % 8]
AddrReg(w) == w.lo % 256
EcamBdf(mask, off) ==
    [bus |-> (off \div 1048576) % (mask + 1),
     dev |-> (off \div 32768) % 32,
     func |-> (off \div 4096) % 8]
AllFF(buf) == \A i \in 1..Len(buf) : buf[i] = 255
HasEndpoint(devs, b) == \E i \in 1..Len(devs) : devs[i].bdf = b
IsPrefix(s, t) == Len(s) <= Len(t) /\ \A i \in 1..Len(s) : s[i] = t[i]
BusDataAccess ==
    last.op \in {"pio_in", "pio_out"} /\ last.port = PORT_PCI_CONFIG_DATA /\ last.res = "ok"
BusAddrAccess ==
    last.op \in {"pio_in", "pio_out"} /\ last.port = PORT_PCI_CONFIG_ADDR /\ last.res = "ok"

\* C1: a data-port read whose latched address is enabled and names a BDF with
\* no endpoint (PciBus), or whose dispatch reports a miss (PioCfgDecoder), ends
\* with every byte of the buffer 0xFF; a data-port write in that situation calls
\* no endpoint and leaves the latch, the registry and the endpoints as they were.
C1_AbsentDevice ==
    /\ (BusDataAccess /\ Bit31(last.latch) /\ ~HasEndpoint(last.devs, AddrBdf(last.latch)))
          => /\ last.calls = <<>>
             /\ pio_cfg_addr = last.latch
             /\ devices = last.devs
             /\ attached = last.att
             /\ last.op = "pio_in" => AllFF(last.buf)
    /\ (last.op = "service_data" /\ Bit31(last.latch) /\ ~last.hit)
          => /\ addr = last.latch
             /\ last.dir = "Read" => AllFF(last.buf)

C1_Witness ==
    /\ last.op = "pio_in" /\ BusDataAccess
    /\ devices # <<>>
    /\ Bit31(last.latch) /\ ~HasEndpoint(devices, AddrBdf(last.latch))
    /\ Len(last.buf) = 4 /\ ~AllFF(last.pre) /\ AllFF(last.buf)

\* C2 (as claimed): with bit 31 of the latched address clear, a data-port access
\* calls no endpoint and a read leaves every byte of the buffer as it was.
C2_EnableClear ==
    ((last.op = "service_data" \/ BusDataAccess) /\ last.res = "ok" /\ ~Bit31(last.latch))
        => /\ last.calls = <<>>
           /\ last.dir = "Read" => last.buf = last.pre

\* C3: an ECAM access whose first and last byte decode to distinct BDFs makes
\* no dispatch, and a read ends with the whole buffer 0xFF.
C3_Straddle ==
    (/\ last.op = "service"
     /\ Len(last.pre) > 0
     /\ EcamBdf(bus_mask, last.offset) # EcamBdf(bus_mask, last.offset + Len(last.pre) - 1))
        => /\ last.res = "ok"
           /\ last.calls = <<>>
           /\ last.dir = "Read" => AllFF(last.buf)

C3_Witness ==
    /\ last.op = "service" /\ last.dir = "Read"
    /\ last.offset = 4094 /\ Len(last.pre) = 4
    /\ last.hit
    /\ last.calls = <<>> /\ AllFF(last.buf) /\ ~AllFF(last.pre)

\* C4 (as claimed): every attach at a free location completes and hands the
\* endpoint pin (func mod 4) + 1 on line 16 + ((4 + dev + pin) mod 8), in 16..23.
C4_Routing ==
    (last.op = "attach" /\ last.res \notin {"panic_dup", "panic_poisoned"})
        => /\ last.res = "ok"
           /\ Len(last.calls) = 1
           /\ last.calls[1].kind = "attach"
           /\ last.calls[1].pin = (last.bdf.func % 4) + 1
           /\ last.calls[1].line = 16 + ((4 + last.bdf.dev + last.calls[1].pin) % 8)
           /\ last.calls[1].line \in 16..23

\* C5: the registry never holds two entries with one BDF; an attach at a BDF
\* that has an endpoint panics, calls no attach callback, and leaves the
\* registry and the endpoints as they were.
C5_OneEndpointPerBdf ==
    /\ \A i, j \in 1..Len(devices) : devices[i].bdf = devices[j].bdf => i = j
    /\ (last.op = "attach" /\ last.res # "panic_poisoned" /\ HasEndpoint(last.devs, last.bdf))
          => /\ last.res = "panic_dup"
             /\ last.calls = <<>>
             /\ devices = last.devs
             /\ attached = last.att

C5_Witness ==
    /\ last.op = "attach" /\ last.res = "panic_dup"
    /\ \E i \in 1..Len(devices) : devices[i].bdf = last.bdf /\ devices[i].dev # last.ep

\* C6: a 4-byte read at offset 0 of the address port returns, byte for byte,
\* the buffer of the latest 4-byte write at offset 0 to the address port,
\* whatever data-port accesses and dropped address-port accesses ran in between.
C6_LatchRoundTrip ==
    /\ (/\ last.op = "pio_in" /\ BusAddrAccess
        /\ Len(last.pre) = 4 /\ last.offset = 0 /\ wrBus # <<>>)
          => last.buf = wrBus
    /\ (/\ last.op = "service_addr" /\ last.dir = "Read"
        /\ Len(last.pre) = 4 /\ last.offset = 0 /\ wrLib # <<>>)
          => last.buf = wrLib

C6_Witness ==
    /\ last.op = "service_addr" /\ last.dir = "Read"
    /\ Len(last.pre) = 4 /\ last.offset = 0
    /\ wrLib = <<255, 250, 1, 255>> /\ last.buf = wrLib

\* C7 (as claimed): an address-port access with len # 4 or offset # 0 leaves
\* the latch as it was and, for a read, every byte of the buffer as it was.
C7_MisalignedAddr ==
    (/\ last.op = "service_addr" \/ BusAddrAccess
     /\ last.res = "ok"
     /\ Len(last.pre) # 4 \/ last.offset # 0)
        => /\ last.op = "service_addr" => addr = last.latch
           /\ last.op = "pio_out" => pio_cfg_addr = last.latch
           /\ last.dir = "Read" => last.buf = last.pre

\* C8: with bit 31 of the latched address a set, service_data calls dispatch
\* once, for bus = bits 23-16, device = bits 15-11, function = bits 10-8 of a,
\* with the access's direction and length at offset (a & 0xFF) + o; on a hit a
\* read buffer holds what the callee left in it.
C8_DataDispatch ==
    (last.op = "service_data" /\ Bit31(last.latch))
        => /\ last.res = "ok"
           /\ Len(last.calls) = 1
           /\ last.calls[1].bdf = AddrBdf(last.latch)
           /\ last.calls[1].kind = last.dir
           /\ last.calls[1].len = Len(last.pre)
           /\ last.calls[1].off = AddrReg(last.latch) + last.offset
           /\ (last.dir = "Read" /\ last.hit) => last.buf = last.data

C8_Witness ==
    /\ last.op = "service_data" /\ last.dir = "Read" /\ last.hit
    /\ last.latch = [hi |-> 65281, lo |-> 64255]
    /\ last.offset = 3 /\ Len(last.pre) = 2
    /\ last.calls[1].bdf = [bus |-> 1, dev |-> 31, func |-> 2]
    /\ last.calls[1].off = 258
    /\ last.buf = <<66, 66>>

\* C9: an ECAM access of non-zero length whose first and last byte decode to
\* one BDF calls dispatch once, for bus = (offset >> 20) & bus_mask, device =
\* (offset >> 15) & 0x1F, function = (offset >> 12) & 7, with the access's
\* direction and length at offset & 0xFFF; a read that misses ends all 0xFF;
\* with 256 buses, region offset 0x00123004 is bus 1, device 4, function 3,
\* offset 4.
C9_EcamDispatch ==
    (/\ last.op = "service"
     /\ Len(last.pre) > 0
     /\ EcamBdf(bus_mask, last.offset) = EcamBdf(bus_mask, last.offset + Len(last.pre) - 1))
        => /\ last.res = "ok"
           /\ Len(last.calls) = 1
           /\ last.calls[1].bdf = EcamBdf(bus_mask, last.offset)
           /\ last.calls[1].kind = last.dir
           /\ last.calls[1].len = Len(last.pre)
           /\ last.calls[1].off = last.offset % 4096
           /\ (last.dir = "Read" /\ ~last.hit) => AllFF(last.buf)
           /\ (bus_mask = 255 /\ last.offset = 1191940)
                 => /\ last.calls[1].bdf = [bus |-> 1, dev |-> 4, func |-> 3]
                    /\ last.calls[1].off = 4

C9_Witness ==
    /\ last.op = "service" /\ bus_mask = 255
    /\ last.offset = 1191940 /\ Len(last.pre) = 4
    /\ last.dir = "Read" /\ ~last.hit
    /\ Len(last.calls) = 1
    /\ last.calls[1].bdf = [bus |-> 1, dev |-> 4, func |-> 3]
    /\ last.calls[1].off = 4
    /\ AllFF(last.buf)

\* C10: no operation removes or replaces a registry entry (the registry before
\* an operation is a prefix of the registry after it), and once attach(b, E)
\* has returned, every data-port access that decodes to b calls E and nothing
\* else.
C10_StableMapping ==
    /\ IsPrefix(last.devs, devices)
    /\ \A c \in completed :
          /\ \E i \in 1..Len(devices) : devices[i] = c
          /\ \A i \in 1..Len(devices) : devices[i].bdf = c.bdf => devices[i].dev = c.dev
    /\ (BusDataAccess /\ Bit31(last.latch))
          => \A c \in completed :
                c.bdf = AddrBdf(last.latch)
                   => /\ Len(last.calls) = 1
                      /\ last.calls[1].ep = c.dev
                      /\ last.calls[1].bdf = c.bdf

C10_Witness ==
    /\ BusDataAccess /\ last.op = "pio_in"
    /\ Len(devices) = 2
    /\ devices[1].dev = "E1" /\ devices[2].dev = "E2"
    /\ AddrBdf(last.latch) = devices[1].bdf
    /\ Bit31(last.latch) /\ last.latch.hi \div 256 = 255
    /\ Len(last.calls) = 1 /\ last.calls[1].ep = "E1"
    /\ last.buf = last.data

\* C15 (as claimed): an attach at a free BDF registers the endpoint and calls its
\* attach callback exactly once, with the routed pin, before it ends; and in
\* every state (no attach is ever half-way: the bus runs it under its mutex)
\* each endpoint has received as many attach callbacks as the registry holds
\* entries for it, so none for an endpoint that is not registered.
C15_AttachCallbackOnce ==
    /\ (last.op = "attach" /\ last.res # "panic_poisoned"
            /\ ~HasEndpoint(last.devs, last.bdf))
          => /\ HasEndpoint(devices, last.bdf)
             /\ Len(last.calls) = 1
             /\ last.calls[1].kind = "attach" /\ last.calls[1].ep = last.ep
             /\ attached[last.ep] =
                    Append(last.att[last.ep],
                           [pin |-> last.calls[1].pin, line |-> last.calls[1].line])
    /\ \A e \in Endpoints :
          Len(attached[e]) = Cardinality({i \in 1..Len(devices) : devices[i].dev = e})

\* A 4-byte read of the address port at offset 0 that ran.
WellFormedAddrRead ==
    /\ last.dir = "Read" /\ Len(last.pre) = 4 /\ last.offset = 0
    /\ last.op = "service_addr" \/ (last.op = "pio_in" /\ BusAddrAccess)
\* A data-port access that ran.
DataAccess == last.op = "service_data" \/ BusDataAccess

\* C20 (as claimed): as long as no 4-byte address-port write at offset 0 of a
\* value with bit 31 set has run, a 4-byte address-port read at offset 0 returns
\* 0 and a data-port access makes no dispatch.
C20_FreshLatch ==
    ~armed => /\ WellFormedAddrRead => last.buf = <<0, 0, 0, 0>>
              /\ DataAccess => last.calls = <<>>

\* C20 (amended): as long as no 4-byte address-port write at offset 0 has run
\* at all, a 4-byte address-port read at offset 0 returns 0; as long as none of
\* a value with bit 31 set has run, a data-port access makes no dispatch and an
\* address-port read returns a value with bit 31 clear.
C20_FreshLatchAmended ==
    /\ (wrBus = <<>> /\ wrLib = <<>> /\ WellFormedAddrRead) => last.buf = <<0, 0, 0, 0>>
    /\ ~armed => /\ WellFormedAddrRead => last.buf[4] < 128
                 /\ DataAccess => last.calls = <<>>
                 /\ ~Bit31(addr) /\ ~Bit31(pio_cfg_addr)

\* A data-port read made while endpoints are attached (PciBus) or the callback
\* would hit (PioCfgDecoder), after an address write with bit 31 clear: no
\* dispatch.
C20_Witness ==
    /\ ~armed /\ DataAccess /\ last.dir = "Read"
    /\ wrBus # <<>> \/ wrLib # <<>>
    /\ last.latch # U32Zero
    /\ devices # <<>> \/ last.hit
    /\ last.calls = <<>>

\* C16: Bdf::new returns absent exactly when dev > 31 or func > 7, whatever the
\* bus, and a Bdf it returns carries the three numbers given; cfg_addr_parse
\* (any 32-bit address) and decode_enhanced_cfg_offset (any region offset and
\* bus mask) never unwrap an absent Bdf, and the Bdf they produce has dev <= 31
\* and func <= 7.
C16_BdfRange ==
    /\ (last.op = "Bdf_new" /\ last.res # "arg")
          => /\ ~last.hit <=> (last.pre[2] > 31 \/ last.pre[3] > 7)
             /\ last.hit =>
                   /\ last.bdf = [bus |-> last.pre[1], dev |-> last.pre[2],
                                  func |-> last.pre[3]]
                   /\ last.bdf.dev <= 31 /\ last.bdf.func <= 7
    /\ (last.op \in {"cfg_addr_parse", "decode_enhanced_cfg_offset"} /\ last.res # "arg")
          => /\ last.res = "ok"
             /\ last.hit => /\ last.bdf.bus \in 0..255
                             /\ last.bdf.dev \in 0..31
                             /\ last.bdf.func \in 0..7
    /\ (last.op = "cfg_addr_parse" /\ last.res # "arg") => (last.hit <=> Bit31(last.latch))
    /\ (last.op = "decode_enhanced_cfg_offset" /\ last.res # "arg") => last.hit

\* Bdf::new(255, 32, 7) is absent: the device number is one past the limit.
C16_Witness ==
    /\ last.op = "Bdf_new" /\ last.res = "ok"
    /\ last.pre = <<255, 32, 7>>
    /\ ~last.hit

\* A field that reads as a non-negative decimal integer: one or more decimal
\* digits, with or without a '+' in front (the forms usize::from_str takes).
FieldDigits(f) == IF f # <<>> /\ f[1] = "+" THEN Tail(f) ELSE f
IsNonNegDecimal(f) ==
    FieldDigits(f) # <<>> /\ \A i \in 1..Len(FieldDigits(f)) : IsDigit(FieldDigits(f)[i])
FieldValue(f) == DecVal(FieldDigits(f))

\* C17: parsing the formatted form of a Bdf gives that Bdf back; parsing a
\* dot-separated list of fields fails when the fields are not exactly three,
\* when a field is not a non-negative decimal integer, and when a field is
\* beyond its width (bus > 255, dev > 31, func > 7).
C17_ParseFormat ==
    /\ (last.op = "fmt" /\ last.res # "arg")
          => /\ last.res = "ok"
             /\ last.data = <<last.bdf>>
    /\ (last.op = "from_str" /\ last.res # "arg")
          => /\ Len(last.pre) # 3 => last.res = "err"
             /\ (\E i \in 1..Len(last.pre) : ~IsNonNegDecimal(last.pre[i]))
                   => last.res = "err"
             /\ (/\ Len(last.pre) = 3
                 /\ \A i \in 1..3 : IsNonNegDecimal(last.pre[i])
                 /\ \/ FieldValue(last.pre[1]) > 255
                    \/ FieldValue(last.pre[2]) > 31
                    \/ FieldValue(last.pre[3]) > 7)
                   => last.res = "err"

\* Bdf 255.31.7 is formatted as the eight characters "255.31.7" and parsed back.
C17_Witness ==
    /\ last.op = "fmt" /\ last.res = "ok"
    /\ last.bdf = [bus |-> 255, dev |-> 31, func |-> 7]
    /\ last.buf = <<"2", "5", "5", ".", "3", "1", ".", "7">>
    /\ last.data = <<last.bdf>>

\* u16 powers of two
PowersOfTwo == {1, 2, 4, 8, 16, 32, 64, 128, 256, 512, 1024, 2048, 4096, 8192, 16384, 32768}

Bytes(w) == <<w.lo % 256, w.lo \div 256, w.hi % 256, w.hi \div 256>>
Word(b) == [hi |-> b[3] + 256 * b[4], lo |-> b[1] + 256 * b[2]]
\* A data-port access of the bus that took the lock, by thread t.
BusDataDone(t) ==
    /\ thr[t].pc = "done" /\ thr[t].op \in {"pio_in", "pio_out"}
    /\ thr[t].port = PORT_PCI_CONFIG_DATA /\ thr[t].res # "panic_poisoned"

\* C11: a data-port access of the bus to BDF b that began after attach(b, E)
\* had returned calls E, once; one whose lookup found no entry for b in the
\* registry (it ran before the insertion, an attach of b being under way or
\* not) calls nothing, ends normally, and a read ends with every byte 0xFF.
C11_AttachBeforeLookup ==
    \A t \in Threads :
        (BusDataDone(t) /\ Bit31(thr[t].copy))
            => /\ thr[t].res = "ok"
               /\ \A c \in thr[t].began :
                     c.bdf = AddrBdf(thr[t].copy)
                        => /\ Len(thr[t].calls) = 1
                           /\ thr[t].calls[1].ep = c.dev
                           /\ thr[t].calls[1].bdf = c.bdf
               /\ ~HasEndpoint(thr[t].devs, AddrBdf(thr[t].copy))
                     => /\ thr[t].calls = <<>>
                        /\ thr[t].dir = "Read" => AllFF(thr[t].buf)

\* A read of b returned all 0xFF while the other thread was in attach(b, E),
\* not yet holding the lock.
C11_Witness ==
    \E t, u \in Threads :
        /\ BusDataDone(t) /\ Bit31(thr[t].copy) /\ thr[t].dir = "Read"
        /\ thr[t].calls = <<>> /\ AllFF(thr[t].buf) /\ thr[t].res = "ok"
        /\ thr[u].op = "attach" /\ thr[u].pc = "lock"
        /\ thr[u].bdf = AddrBdf(thr[t].copy)
        /\ devices # <<>>

\* C12: the latch value a data-port access of the decoder decodes is the value
\* of the last 4-byte address write that had completed when the access began
\* (0 when there was none), or the value of one that completed after that;
\* never an older one, never bytes of two.
C12_LatchOrder ==
    \A t \in Threads :
        (thr[t].op = "service_data" /\ thr[t].pc \in {"dispatch", "done"})
            => Bytes(thr[t].copy) \in
                  (IF thr[t].began = {<<>>} THEN {<<0, 0, 0, 0>>} ELSE thr[t].began)
                  \cup thr[t].since

\* A data access that began after one write and decoded the value of a later one.
C12_Witness ==
    \E t \in Threads :
        /\ thr[t].op = "service_data" /\ thr[t].pc = "done"
        /\ thr[t].began # {<<>>}
        /\ Bytes(thr[t].copy) \notin thr[t].began
        /\ Bytes(thr[t].copy) \in thr[t].since
        /\ thr[t].calls # <<>>

\* A thread inside the handler of a data-port access.
InDataHandler(t) ==
    thr[t].port = PORT_PCI_CONFIG_DATA /\ thr[t].pc \in {"handler", "dispatch"}

\* C13 (as claimed): while a thread is inside the handler of a data-port
\* access, an address-port read or write that another thread has begun can
\* take the latch's lock and run.
C13_LatchFreeDuringDispatch ==
    \A t, u \in Threads :
        (/\ t # u
         /\ InDataHandler(t)
         /\ thr[u].pc = "lock" /\ thr[u].port = PORT_PCI_CONFIG_ADDR)
            => ENABLED (PioLocked(u) \/ LibAddr(u))

\* C14 (as claimed): while a thread is inside an endpoint's handler of a config
\* access to one BDF, a config access to another BDF that another thread has
\* begun (the address-port write that selects it, or the data-port access once
\* it is selected) is not held up.
C14_NoCrossDeviceOrdering ==
    \A t, u \in Threads :
        (/\ t # u
         /\ target = "PciBus"
         /\ InDataHandler(t) /\ thr[t].pc = "handler"
         /\ thr[u].pc = "lock" /\ thr[u].op \in {"pio_in", "pio_out"}
         /\ \/ /\ thr[u].op = "pio_out" /\ thr[u].port = PORT_PCI_CONFIG_ADDR
                /\ Bit31(Word(thr[u].buf))
                /\ AddrBdf(Word(thr[u].buf)) # thr[t].calls[1].bdf
            \/ /\ thr[u].port = PORT_PCI_CONFIG_DATA
                /\ Bit31(pio_cfg_addr)
                /\ AddrBdf(pio_cfg_addr) # thr[t].calls[1].bdf)
            => ENABLED PioLocked(u)

\* C19: a data-port access of the decoder dispatches to the BDF and register
\* of the latch value it copied, or not at all when bit 31 of that value is
\* clear, whatever the latch holds when it dispatches; and no step of
\* service_data changes the latch.
C19_InFlightTarget ==
    /\ [](\A t \in Threads :
            (thr[t].op = "service_data" /\ thr[t].pc = "done")
                => IF Bit31(thr[t].copy)
                   THEN /\ Len(thr[t].calls) = 1
                        /\ thr[t].calls[1].bdf = AddrBdf(thr[t].copy)
                        /\ thr[t].calls[1].off = AddrReg(thr[t].copy)
                   ELSE thr[t].calls = <<>>)
    /\ [][\A t \in Threads :
            (/\ thr[t].op = "service_data" /\ thr[t].pc \in {"lock", "dispatch"}
             /\ thr'[t].pc # thr[t].pc)
                => addr' = addr]_vars

\* A dispatch to the BDF of the copied value after another thread's address
\* write had put another BDF in the latch.
C19_Witness ==
    \E t \in Threads :
        /\ thr[t].op = "service_data" /\ thr[t].pc = "done"
        /\ Bit31(thr[t].copy) /\ Bit31(thr[t].now)
        /\ AddrBdf(thr[t].now) # AddrBdf(thr[t].copy)
        /\ Len(thr[t].calls) = 1
        /\ thr[t].calls[1].bdf = AddrBdf(thr[t].copy)

\* C21: an access of one byte or more that lies inside the ECAM window
\* (offset + len <= bus_count * 2^20) and that service dispatches is dispatched
\* once, with cfg_off + len <= 4096, and every byte offset of the access
\* decodes to the BDF it is dispatched to.
C21_WithinFunction ==
    (/\ last.op = "service" /\ last.res # "arg"
     /\ Len(last.pre) >= 1
     /\ last.offset + Len(last.pre) <= (last.port + 1) * 1048576
     /\ last.calls # <<>>)
        => /\ Len(last.calls) = 1
           /\ last.calls[1].len = Len(last.pre)
           /\ last.calls[1].off + Len(last.pre) <= 4096
           /\ \A k \in 0..(Len(last.pre) - 1) :
                 EcamBdf(last.port, last.offset + k) = last.calls[1].bdf

\* A 4096-byte read of the whole configuration space of the last function of
\* a 256-bus window is dispatched, to 255.31.7 at offset 0.
C21_Witness ==
    /\ last.op = "service" /\ last.res = "ok" /\ last.dir = "Read"
    /\ last.port = 255
    /\ last.offset = 268431360 /\ Len(last.pre) = 4096
    /\ Len(last.calls) = 1
    /\ last.calls[1].bdf = [bus |-> 255, dev |-> 31, func |-> 7]
    /\ last.calls[1].off = 0 /\ last.calls[1].len = 4096

====
